---- MODULE Spec2Model ----
(***************************************************************************)
(* Model of HardwareObserverCharm (src/src/charm.py): the persisted flags, *)
(* the unit status and the event handlers that reconcile them.             *)
(*                                                                         *)
(* One event is handled at a time.  The charm object is constructed anew   *)
(* for every event, so num_cos_agent_relations and the configuration are   *)
(* read once per event.  The gateways (HWToolHelper, Exporter, redfish)    *)
(* are external: every result they return is drawn nondeterministically.   *)
(* Gateway calls return values and do not raise; the only error that       *)
(* leaves a handler is the ExporterError raised by restart_exporter.       *)
(***************************************************************************)
EXTENDS Integers, Sequences, FiniteSets, TLC

\* ------------------------------------------------------------------ bounds
MaxRelations == 2

\* ------------------------------------------------------- program constants
EXPORTER_HEALTH_RETRY_COUNT == 3

\* ----------------------------------------------------------------- status
MaintenanceStatus(m) == [kind |-> "maintenance", msg |-> m]
BlockedStatus(m) == [kind |-> "blocked", msg |-> m]
ActiveStatus(m) == [kind |-> "active", msg |-> m]

\* the status of a unit before any handler has written one
InitialStatus == MaintenanceStatus("")

\* messages produced by the external tool helper (opaque to the charm)
HWToolInstallMsg == "hw tool install failed"
HWToolCheckMsg == "hw tool not installed"

MissingRelationMsg == "Missing relation: [cos-agent]"
TooManyRelationsMsg == "Cannot relate to more than one grafana-agent"
ExporterInstallFailedMsg == "Failed to install exporter, please refer to juju debug-log"
RenderFailedMsg == "Failed to configure exporter, please check if the server is healthy."
InvalidPortMsg == "Invalid config: 'exporter-port'"
InvalidLevelMsg == "Invalid config: 'exporter-log-level'"
InvalidRedfishMsg == "Invalid config: 'redfish-username' or 'redfish-password'"
ConfigValidMsg == "Exporter config is valid."

\* ------------------------------------------------------------ log levels
\* a log level is a sequence of one-character strings
UpperChar(c) ==
    CASE c = "a" -> "A" [] c = "b" -> "B" [] c = "c" -> "C" [] c = "d" -> "D"
      [] c = "e" -> "E" [] c = "f" -> "F" [] c = "g" -> "G" [] c = "i" -> "I"
      [] c = "l" -> "L" [] c = "n" -> "N" [] c = "o" -> "O" [] c = "r" -> "R"
      [] c = "s" -> "S" [] c = "t" -> "T" [] c = "u" -> "U" [] c = "v" -> "V"
      [] c = "w" -> "W"
      [] OTHER -> c

upper(s) == [k \in 1..Len(s) |-> UpperChar(s[k])]

allowed_choices ==
    { <<"D","E","B","U","G">>,
      <<"I","N","F","O">>,
      <<"W","A","R","N","I","N","G">>,
      <<"E","R","R","O","R">>,
      <<"C","R","I","T","I","C","A","L">> }

\* ------------------------------------------------------------- inputs
\* ports and log levels the validation is tried on
Ports == {0, 1, 8080, 65535, 65536}

Levels ==
    { <<"d","e","b","u","g">>,
      <<"I","N","F","O">>,
      <<"W","a","R","n","I","n","G">>,
      <<"e","r","r","o","r">>,
      <<"C","r","i","t","i","c","a","l">>,
      <<"v","e","r","b","o","s","e">>,
      <<"w","a","r","n">>,
      <<>> }

\* the configurations an event may observe
Configs ==
    { [port |-> 8080, level |-> <<"d","e","b","u","g">>],
      [port |-> 0, level |-> <<"I","N","F","O">>],
      [port |-> 65536, level |-> <<"v","e","r","b","o","s","e">>],
      [port |-> 1, level |-> <<"v","e","r","b","o","s","e">>] }

\* what the BMC does when the credential check runs:
\*   unavailable          bmc_hw_verifier() reports no redfish
\*   client_error         redfish_client(...) raises
\*   login_ok             login succeeds
\*   invalid_credentials  login raises InvalidCredentialsError
\*   login_error          login raises another exception
RedfishOutcomes ==
    {"unavailable", "client_error", "login_ok", "invalid_credentials", "login_error"}

\* results of the liveness probes of one restart_exporter call, in call order
ProbeSeqs == [1..(EXPORTER_HEALTH_RETRY_COUNT + 1) -> BOOLEAN]

\* the gateway results one run of _on_update_status may observe
Facts ==
    [redfish : RedfishOutcomes, tools_ok : BOOLEAN, healthy : BOOLEAN, probes : ProbeSeqs]

\* the same with four representative probe sequences: never active, always
\* active, active at the first probe only, active at the last probe only
FactsObserved ==
    { f \in Facts :
        \/ \A k \in DOMAIN f.probes : f.probes[k] = FALSE
        \/ \A k \in DOMAIN f.probes : f.probes[k] = TRUE
        \/ \A k \in DOMAIN f.probes : f.probes[k] = (k = 1)
        \/ \A k \in DOMAIN f.probes : f.probes[k] = (k = EXPORTER_HEALTH_RETRY_COUNT + 1) }

\* ------------------------------------------------------------- helpers
RECURSIVE Count(_, _)
Count(s, e) ==
    IF s = <<>> THEN 0
    ELSE (IF Head(s) = e THEN 1 ELSE 0) + Count(Tail(s), e)

Has(s, e) == \E k \in 1..Len(s) : s[k] = e

\* index of the first occurrence of e in s, 0 when absent
RECURSIVE IndexFrom(_, _, _)
IndexFrom(s, e, k) ==
    IF k > Len(s) THEN 0
    ELSE IF s[k] = e THEN k
    ELSE IndexFrom(s, e, k + 1)

Index(s, e) == IndexFrom(s, e, 1)

\* --------------------------------------------------- credential check
\* get_redfish_conn_params: empty when redfish is not available
get_redfish_conn_params(redfish) == IF redfish = "unavailable" THEN "empty" ELSE "params"

\* the credential check with logout on the success path only (no finally)
redfish_conn_params_valid_no_finally(redfish) ==
    IF get_redfish_conn_params(redfish) = "empty"
    THEN [result |-> "None", trace |-> <<"get_redfish_conn_params">>]
    ELSE IF redfish = "client_error"
    THEN [result |-> "False", trace |-> <<"get_redfish_conn_params", "redfish_client">>]
    ELSE IF redfish = "invalid_credentials"
    THEN [result |-> "False",
          trace |-> <<"get_redfish_conn_params", "redfish_client", "login">>]
    ELSE IF redfish = "login_error"
    THEN [result |-> "False",
          trace |-> <<"get_redfish_conn_params", "redfish_client", "login">>]
    ELSE [result |-> "True",
          trace |-> <<"get_redfish_conn_params", "redfish_client", "login", "logout">>]

\* redfish_conn_params_valid: result is "None", "True" or "False"
redfish_conn_params_valid(redfish) ==
    IF get_redfish_conn_params(redfish) = "empty"
    THEN [result |-> "None", trace |-> <<"get_redfish_conn_params">>]
    ELSE IF redfish = "client_error"
    THEN [result |-> "False", trace |-> <<"get_redfish_conn_params", "redfish_client">>]
    ELSE IF redfish = "invalid_credentials"
    THEN [result |-> "False",
          trace |-> <<"get_redfish_conn_params", "redfish_client", "login", "logout">>]
    ELSE IF redfish = "login_error"
    THEN [result |-> "False",
          trace |-> <<"get_redfish_conn_params", "redfish_client", "login", "logout">>]
    ELSE [result |-> "True",
          trace |-> <<"get_redfish_conn_params", "redfish_client", "login", "logout">>]

\* --------------------------------------------------- config validation
\* the validation requiring the credential check to return True
validate_exporter_configs_requires_true(cfg, redfish) ==
    IF ~(1 <= cfg.port /\ cfg.port <= 65535)
    THEN [ok |-> FALSE, msg |-> InvalidPortMsg, trace |-> <<"validate_exporter_configs">>]
    ELSE IF upper(cfg.level) \notin allowed_choices
    THEN [ok |-> FALSE, msg |-> InvalidLevelMsg, trace |-> <<"validate_exporter_configs">>]
    ELSE LET r == redfish_conn_params_valid(redfish) IN
         IF r.result # "True"
         THEN [ok |-> FALSE, msg |-> InvalidRedfishMsg,
               trace |-> <<"validate_exporter_configs">> \o r.trace]
         ELSE [ok |-> TRUE, msg |-> ConfigValidMsg,
               trace |-> <<"validate_exporter_configs">> \o r.trace]

validate_exporter_configs(cfg, redfish) ==
    IF ~(1 <= cfg.port /\ cfg.port <= 65535)
    THEN [ok |-> FALSE, msg |-> InvalidPortMsg, trace |-> <<"validate_exporter_configs">>]
    ELSE IF upper(cfg.level) \notin allowed_choices
    THEN [ok |-> FALSE, msg |-> InvalidLevelMsg, trace |-> <<"validate_exporter_configs">>]
    ELSE LET r == redfish_conn_params_valid(redfish) IN
         IF r.result = "False"
         THEN [ok |-> FALSE, msg |-> InvalidRedfishMsg,
               trace |-> <<"validate_exporter_configs">> \o r.trace]
         ELSE [ok |-> TRUE, msg |-> ConfigValidMsg,
               trace |-> <<"validate_exporter_configs">> \o r.trace]

\* --------------------------------------------------- relation count
\* the relation test requiring more than one relation
exporter_enabled_needs_two(n) == n > 1

exporter_enabled(n) == n # 0

\* the bound on the relation count taken one too high
too_many_cos_agent_relations_off_by_one(n) == n > 2

too_many_cos_agent_relations(n) == n > 1

\* --------------------------------------------------- restart supervisor
ProbeEntry(active) == IF active THEN "check_active:True" ELSE "check_active:False"

\* the for loop of restart_exporter from iteration i on; iters is the number
\* of iterations that ran
RECURSIVE restart_loop(_, _)
restart_loop(i, probes) ==
    IF i > EXPORTER_HEALTH_RETRY_COUNT
    THEN [iters |-> i - 1, trace |-> <<>>]
    ELSE IF probes[i]
    THEN [iters |-> i, trace |-> <<"restart", ProbeEntry(TRUE)>>]
    ELSE LET rest == restart_loop(i + 1, probes) IN
         [iters |-> rest.iters, trace |-> <<"restart", ProbeEntry(FALSE)>> \o rest.trace]

\* the loop alone: the probe after the loop and its raise are left out
restart_exporter_never_raises(probes) ==
    LET loop == restart_loop(1, probes)
        final == probes[loop.iters + 1]
    IN [fatal |-> FALSE,
        restarts |-> loop.iters,
        trace |-> <<"restart_exporter">> \o loop.trace \o <<ProbeEntry(final)>>]

\* restart_exporter: the loop, then the probe that decides whether to raise
restart_exporter(probes) ==
    LET loop == restart_loop(1, probes)
        final == probes[loop.iters + 1]
    IN [fatal |-> ~final,
        restarts |-> loop.iters,
        trace |-> <<"restart_exporter">> \o loop.trace \o <<ProbeEntry(final)>>]

\* --------------------------------------------------- the evaluator
\* the evaluator with a tool-check failure also clearing resource_installed
on_update_status_clears_flag(st, n, cfg, f, prev) ==
    IF ~st.resource_installed
    THEN [stored |-> st, status |-> prev, fatal |-> FALSE, trace |-> <<"update_status">>]
    ELSE IF ~exporter_enabled(n)
    THEN [stored |-> st, status |-> BlockedStatus(MissingRelationMsg), fatal |-> FALSE,
          trace |-> <<"update_status", "status:blocked">>]
    ELSE IF too_many_cos_agent_relations(n)
    THEN [stored |-> st, status |-> BlockedStatus(TooManyRelationsMsg), fatal |-> FALSE,
          trace |-> <<"update_status", "status:blocked">>]
    ELSE LET v == validate_exporter_configs(cfg, f.redfish) IN
    IF ~v.ok
    THEN [stored |-> st, status |-> BlockedStatus(v.msg), fatal |-> FALSE,
          trace |-> <<"update_status">> \o v.trace \o <<"status:blocked">>]
    ELSE IF ~f.tools_ok
    THEN [stored |-> [st EXCEPT !.resource_installed = FALSE],
          status |-> BlockedStatus(HWToolCheckMsg), fatal |-> FALSE,
          trace |-> <<"update_status">> \o v.trace \o <<"check_installed", "status:blocked">>]
    ELSE IF f.healthy
    THEN [stored |-> st, status |-> ActiveStatus("Unit is ready"), fatal |-> FALSE,
          trace |-> <<"update_status">> \o v.trace
                    \o <<"check_installed", "check_health", "status:active">>]
    ELSE LET r == restart_exporter(f.probes) IN
    IF r.fatal
    THEN [stored |-> st, status |-> prev, fatal |-> TRUE,
          trace |-> <<"update_status">> \o v.trace
                    \o <<"check_installed", "check_health">> \o r.trace \o <<"raise">>]
    ELSE [stored |-> st, status |-> ActiveStatus("Unit is ready"), fatal |-> FALSE,
          trace |-> <<"update_status">> \o v.trace
                    \o <<"check_installed", "check_health">> \o r.trace
                    \o <<"status:active">>]

\* the evaluator returning on too many relations without writing the status
on_update_status_keeps_status(st, n, cfg, f, prev) ==
    IF ~st.resource_installed
    THEN [stored |-> st, status |-> prev, fatal |-> FALSE, trace |-> <<"update_status">>]
    ELSE IF ~exporter_enabled(n)
    THEN [stored |-> st, status |-> BlockedStatus(MissingRelationMsg), fatal |-> FALSE,
          trace |-> <<"update_status", "status:blocked">>]
    ELSE IF too_many_cos_agent_relations(n)
    THEN [stored |-> st, status |-> prev, fatal |-> FALSE,
          trace |-> <<"update_status">>]
    ELSE LET v == validate_exporter_configs(cfg, f.redfish) IN
    IF ~v.ok
    THEN [stored |-> st, status |-> BlockedStatus(v.msg), fatal |-> FALSE,
          trace |-> <<"update_status">> \o v.trace \o <<"status:blocked">>]
    ELSE IF ~f.tools_ok
    THEN [stored |-> st, status |-> BlockedStatus(HWToolCheckMsg), fatal |-> FALSE,
          trace |-> <<"update_status">> \o v.trace \o <<"check_installed", "status:blocked">>]
    ELSE IF f.healthy
    THEN [stored |-> st, status |-> ActiveStatus("Unit is ready"), fatal |-> FALSE,
          trace |-> <<"update_status">> \o v.trace
                    \o <<"check_installed", "check_health", "status:active">>]
    ELSE LET r == restart_exporter(f.probes) IN
    IF r.fatal
    THEN [stored |-> st, status |-> prev, fatal |-> TRUE,
          trace |-> <<"update_status">> \o v.trace
                    \o <<"check_installed", "check_health">> \o r.trace \o <<"raise">>]
    ELSE [stored |-> st, status |-> ActiveStatus("Unit is ready"), fatal |-> FALSE,
          trace |-> <<"update_status">> \o v.trace
                    \o <<"check_installed", "check_health">> \o r.trace
                    \o <<"status:active">>]

\* _on_update_status: the flags and the status it leaves, whether ExporterError
\* escaped, and the calls it made
on_update_status(st, n, cfg, f, prev) ==
    IF ~st.resource_installed
    THEN [stored |-> st, status |-> prev, fatal |-> FALSE, trace |-> <<"update_status">>]
    ELSE IF ~exporter_enabled(n)
    THEN [stored |-> st, status |-> BlockedStatus(MissingRelationMsg), fatal |-> FALSE,
          trace |-> <<"update_status", "status:blocked">>]
    ELSE IF too_many_cos_agent_relations(n)
    THEN [stored |-> st, status |-> BlockedStatus(TooManyRelationsMsg), fatal |-> FALSE,
          trace |-> <<"update_status", "status:blocked">>]
    ELSE LET v == validate_exporter_configs(cfg, f.redfish) IN
    IF ~v.ok
    THEN [stored |-> st, status |-> BlockedStatus(v.msg), fatal |-> FALSE,
          trace |-> <<"update_status">> \o v.trace \o <<"status:blocked">>]
    ELSE IF ~f.tools_ok
    THEN [stored |-> st, status |-> BlockedStatus(HWToolCheckMsg), fatal |-> FALSE,
          trace |-> <<"update_status">> \o v.trace \o <<"check_installed", "status:blocked">>]
    ELSE IF f.healthy
    THEN [stored |-> st, status |-> ActiveStatus("Unit is ready"), fatal |-> FALSE,
          trace |-> <<"update_status">> \o v.trace
                    \o <<"check_installed", "check_health", "status:active">>]
    ELSE LET r == restart_exporter(f.probes) IN
    IF r.fatal
    THEN [stored |-> st, status |-> prev, fatal |-> TRUE,
          trace |-> <<"update_status">> \o v.trace
                    \o <<"check_installed", "check_health">> \o r.trace \o <<"raise">>]
    ELSE [stored |-> st, status |-> ActiveStatus("Unit is ready"), fatal |-> FALSE,
          trace |-> <<"update_status">> \o v.trace
                    \o <<"check_installed", "check_health">> \o r.trace
                    \o <<"status:active">>]

\* ------------------------------------------------------------- state
VARIABLES
    stored,                    \* _stored: resource_installed, exporter_installed
    status,                    \* model.unit.status
    pc,                        \* position of the running handler, "idle" when none
    handler,                   \* the event being handled, or handled last
    num_cos_agent_relations,   \* read in __init__, once per event
    config,                    \* model.config as the event sees it
    trace,                     \* calls and status writes of the current handler run
    outcome,                   \* how the last handler ended
    deferred,                  \* event.defer() was called in this handler run
    service,                   \* what the exporter service was last told
    last_install,              \* how the latest install/upgrade handler ended
    status_before,             \* the status when the current handler was dispatched
    removed,                   \* a remove event was handled after the latest install/upgrade
    ev                         \* evaluator runs on drawn inputs (SpecEval)

charmvars == <<stored, status, pc, handler, num_cos_agent_relations, config, trace,
               outcome, deferred, service, last_install, status_before, removed>>
vars == <<stored, status, pc, handler, num_cos_agent_relations, config, trace,
          outcome, deferred, service, last_install, status_before, removed, ev>>

Handlers == {"install_or_upgrade", "remove", "update_status", "config_changed",
             "relation_joined", "relation_departed"}

EvNone == [phase |-> "off"]

Init ==
    /\ stored = [resource_installed |-> FALSE, exporter_installed |-> FALSE]
    /\ status = InitialStatus
    /\ pc = "idle"
    /\ handler = "none"
    /\ num_cos_agent_relations = 0
    /\ config \in Configs
    /\ trace = <<>>
    /\ outcome = "none"
    /\ deferred = FALSE
    /\ service = [enabled |-> FALSE, running |-> FALSE]
    /\ last_install = "none"
    /\ status_before = InitialStatus
    /\ removed = FALSE
    /\ ev = EvNone

\* the framework constructs the charm and hands it event h
Dispatch(h) ==
    /\ pc = "idle"
    /\ handler' = h
    /\ num_cos_agent_relations' \in 0..MaxRelations
    /\ config' \in Configs
    /\ status_before' = status
    /\ removed' = IF h = "remove" THEN TRUE
                  ELSE IF h = "install_or_upgrade" THEN FALSE
                  ELSE removed
    /\ UNCHANGED ev

\* the handler returns
Return ==
    /\ pc' = "idle"
    /\ outcome' = "returned"

\* ------------------------------------------------- _on_install_or_upgrade
InstallOrUpgrade ==
    /\ Dispatch("install_or_upgrade")
    /\ status' = MaintenanceStatus("Installing resources...")
    /\ trace' = <<"status:maintenance">>
    /\ deferred' = FALSE
    /\ pc' = "hw_tool_install"
    /\ outcome' = "running"
    /\ last_install' = "running"
    /\ UNCHANGED <<stored, service>>

\* the handler returning on a failed tool install without the Blocked status
HWToolInstall_NoBlocked ==
    /\ pc = "hw_tool_install"
    /\ \E ok \in BOOLEAN :
        /\ stored' = [stored EXCEPT !.resource_installed = ok]
        /\ IF ~ok
           THEN /\ trace' = trace \o <<"hw_tool_install">>
                /\ Return
                /\ last_install' = "returned"
                /\ UNCHANGED status
           ELSE /\ status' = MaintenanceStatus("Installing exporter...")
                /\ trace' = trace \o <<"hw_tool_install", "status:maintenance">>
                /\ pc' = "exporter_install"
                /\ UNCHANGED <<outcome, last_install>>
    /\ UNCHANGED <<handler, num_cos_agent_relations, config, deferred, service,
                   status_before, removed, ev>>

\* the handler going on to the exporter install after a failed tool install
HWToolInstall_Continues ==
    /\ pc = "hw_tool_install"
    /\ \E ok \in BOOLEAN :
        /\ stored' = [stored EXCEPT !.resource_installed = ok]
        /\ IF ~ok
           THEN /\ status' = BlockedStatus(HWToolInstallMsg)
                /\ trace' = trace \o <<"hw_tool_install", "status:blocked">>
                /\ pc' = "exporter_install"
                /\ UNCHANGED <<outcome, last_install>>
           ELSE /\ status' = MaintenanceStatus("Installing exporter...")
                /\ trace' = trace \o <<"hw_tool_install", "status:maintenance">>
                /\ pc' = "exporter_install"
                /\ UNCHANGED <<outcome, last_install>>
    /\ UNCHANGED <<handler, num_cos_agent_relations, config, deferred, service,
                   status_before, removed, ev>>

HWToolInstall ==
    /\ pc = "hw_tool_install"
    /\ \E ok \in BOOLEAN :
        /\ stored' = [stored EXCEPT !.resource_installed = ok]
        /\ IF ~ok
           THEN /\ status' = BlockedStatus(HWToolInstallMsg)
                /\ trace' = trace \o <<"hw_tool_install", "status:blocked">>
                /\ Return
                /\ last_install' = "returned"
           ELSE /\ status' = MaintenanceStatus("Installing exporter...")
                /\ trace' = trace \o <<"hw_tool_install", "status:maintenance">>
                /\ pc' = "exporter_install"
                /\ UNCHANGED <<outcome, last_install>>
    /\ UNCHANGED <<handler, num_cos_agent_relations, config, deferred, service,
                   status_before, removed, ev>>

\* the exporter install failing without the Blocked status being written
ExporterInstall_NoBlocked ==
    /\ pc = "exporter_install"
    /\ \E success \in BOOLEAN :
        /\ stored' = [stored EXCEPT !.exporter_installed = success]
        /\ IF ~success
           THEN /\ trace' = trace \o <<"exporter_install">>
                /\ Return
                /\ last_install' = "returned"
                /\ UNCHANGED status
           ELSE /\ trace' = trace \o <<"exporter_install">>
                /\ pc' = "update_status"
                /\ UNCHANGED <<status, outcome, last_install>>
    /\ UNCHANGED <<handler, num_cos_agent_relations, config, deferred, service,
                   status_before, removed, ev>>

ExporterInstall ==
    /\ pc = "exporter_install"
    /\ \E success \in BOOLEAN :
        /\ stored' = [stored EXCEPT !.exporter_installed = success]
        /\ IF ~success
           THEN /\ status' = BlockedStatus(ExporterInstallFailedMsg)
                /\ trace' = trace \o <<"exporter_install", "status:blocked">>
                /\ Return
                /\ last_install' = "returned"
           ELSE /\ trace' = trace \o <<"exporter_install">>
                /\ pc' = "update_status"
                /\ UNCHANGED <<status, outcome, last_install>>
    /\ UNCHANGED <<handler, num_cos_agent_relations, config, deferred, service,
                   status_before, removed, ev>>

\* ------------------------------------------------------------ _on_remove
Remove ==
    /\ Dispatch("remove")
    /\ \E success \in BOOLEAN :
        /\ stored' = [resource_installed |-> FALSE, exporter_installed |-> ~success]
        /\ trace' = <<"hw_tool_remove", "exporter_uninstall">>
    /\ deferred' = FALSE
    /\ Return
    /\ UNCHANGED <<status, service, last_install>>

\* ----------------------------------------------------- _on_update_status
\* the handler announcing a Maintenance status before it evaluates
UpdateStatusEvent_Maintenance ==
    /\ Dispatch("update_status")
    /\ trace' = <<"status:maintenance">>
    /\ deferred' = FALSE
    /\ pc' = "update_status"
    /\ outcome' = "running"
    /\ status' = MaintenanceStatus("Checking status...")
    /\ UNCHANGED <<stored, service, last_install>>

UpdateStatusEvent ==
    /\ Dispatch("update_status")
    /\ trace' = <<>>
    /\ deferred' = FALSE
    /\ pc' = "update_status"
    /\ outcome' = "running"
    /\ UNCHANGED <<stored, status, service, last_install>>

\* the call of _on_update_status that ends update-status, install/upgrade,
\* config-changed, relation-joined and relation-departed
Evaluate(f) ==
    /\ pc = "update_status"
    /\ LET r == on_update_status(stored, num_cos_agent_relations, config, f, status)
       IN /\ stored' = r.stored
          /\ status' = r.status
          /\ trace' = trace \o r.trace
          /\ outcome' = IF r.fatal THEN "fatal" ELSE "returned"
          /\ service' = IF Has(r.trace, "restart")
                        THEN [service EXCEPT !.running = TRUE]
                        ELSE service
          /\ last_install' = IF handler = "install_or_upgrade"
                             THEN (IF r.fatal THEN "fatal" ELSE "returned")
                             ELSE last_install
    /\ pc' = "idle"
    /\ UNCHANGED <<handler, num_cos_agent_relations, config, deferred, status_before,
                   removed>>

UpdateStatus ==
    /\ \E f \in Facts : Evaluate(f)
    /\ UNCHANGED ev

\* the same call, with the facts it was given kept in ev (SpecObserved)
UpdateStatusObserved ==
    \E f \in FactsObserved :
        /\ Evaluate(f)
        /\ ev' = [phase |-> "observed", redfish |-> f.redfish,
                  tools_ok |-> f.tools_ok, healthy |-> f.healthy]

\* ---------------------------------------------------- _on_config_changed
ConfigChanged ==
    /\ Dispatch("config_changed")
    /\ deferred' = ~stored.resource_installed
    /\ trace' = IF ~stored.resource_installed THEN <<"defer">> ELSE <<>>
    /\ pc' = IF exporter_enabled(num_cos_agent_relations')
             THEN "validate_config" ELSE "update_status"
    /\ outcome' = "running"
    /\ UNCHANGED <<stored, status, service, last_install>>

ConfigChangedValidate ==
    /\ pc = "validate_config"
    /\ \E redfish \in RedfishOutcomes :
        LET v == validate_exporter_configs(config, redfish)
        IN /\ trace' = trace \o v.trace \o (IF v.ok THEN <<>> ELSE <<"status:blocked">>)
           /\ IF ~v.ok
              THEN /\ status' = BlockedStatus(v.msg)
                   /\ Return
              ELSE /\ pc' = "render_config"
                   /\ UNCHANGED <<status, outcome>>
    /\ UNCHANGED <<stored, handler, num_cos_agent_relations, config, deferred, service,
                   last_install, status_before, removed, ev>>

\* the handler restarting the exporter although the re-render failed
ConfigChangedRender_RestartsAnyway ==
    /\ pc = "render_config"
    /\ \E success \in BOOLEAN :
        IF ~success
        THEN /\ status' = BlockedStatus(RenderFailedMsg)
             /\ trace' = trace \o <<"render_config", "status:blocked", "restart">>
             /\ service' = [service EXCEPT !.running = TRUE]
             /\ Return
        ELSE /\ trace' = trace \o <<"render_config", "restart">>
             /\ service' = [service EXCEPT !.running = TRUE]
             /\ pc' = "update_status"
             /\ UNCHANGED <<status, outcome>>
    /\ UNCHANGED <<stored, handler, num_cos_agent_relations, config, deferred,
                   last_install, status_before, removed, ev>>

ConfigChangedRender ==
    /\ pc = "render_config"
    /\ \E success \in BOOLEAN :
        IF ~success
        THEN /\ status' = BlockedStatus(RenderFailedMsg)
             /\ trace' = trace \o <<"render_config", "status:blocked">>
             /\ Return
             /\ UNCHANGED service
        ELSE /\ trace' = trace \o <<"render_config", "restart">>
             /\ service' = [service EXCEPT !.running = TRUE]
             /\ pc' = "update_status"
             /\ UNCHANGED <<status, outcome>>
    /\ UNCHANGED <<stored, handler, num_cos_agent_relations, config, deferred,
                   last_install, status_before, removed, ev>>

\* ----------------------------------------- _on_cos_agent_relation_joined
\* the guard testing resource_installed alone
RelationJoined_ResourceOnly ==
    /\ Dispatch("relation_joined")
    /\ IF ~stored.resource_installed
       THEN /\ deferred' = TRUE
            /\ trace' = <<"defer">>
            /\ Return
            /\ UNCHANGED service
       ELSE /\ deferred' = FALSE
            /\ trace' = <<"enable", "start">>
            /\ service' = [enabled |-> TRUE, running |-> TRUE]
            /\ pc' = "update_status"
            /\ outcome' = "running"
    /\ UNCHANGED <<stored, status, last_install>>

RelationJoined ==
    /\ Dispatch("relation_joined")
    /\ IF ~stored.resource_installed \/ ~stored.exporter_installed
       THEN /\ deferred' = TRUE
            /\ trace' = <<"defer">>
            /\ Return
            /\ UNCHANGED service
       ELSE /\ deferred' = FALSE
            /\ trace' = <<"enable", "start">>
            /\ service' = [enabled |-> TRUE, running |-> TRUE]
            /\ pc' = "update_status"
            /\ outcome' = "running"
    /\ UNCHANGED <<stored, status, last_install>>

\* --------------------------------------- _on_cos_agent_relation_departed
\* the handler forgetting the exporter once it has stopped it
RelationDeparted_ClearsFlag ==
    /\ Dispatch("relation_departed")
    /\ IF stored.exporter_installed
       THEN /\ trace' = <<"stop", "disable">>
            /\ service' = [enabled |-> FALSE, running |-> FALSE]
            /\ stored' = [stored EXCEPT !.exporter_installed = FALSE]
       ELSE /\ trace' = <<>>
            /\ UNCHANGED <<service, stored>>
    /\ deferred' = FALSE
    /\ pc' = "update_status"
    /\ outcome' = "running"
    /\ UNCHANGED <<status, last_install>>

RelationDeparted ==
    /\ Dispatch("relation_departed")
    /\ IF stored.exporter_installed
       THEN /\ trace' = <<"stop", "disable">>
            /\ service' = [enabled |-> FALSE, running |-> FALSE]
       ELSE /\ trace' = <<>>
            /\ UNCHANGED service
    /\ deferred' = FALSE
    /\ pc' = "update_status"
    /\ outcome' = "running"
    /\ UNCHANGED <<stored, status, last_install>>

Next ==
    \/ InstallOrUpgrade
    \/ HWToolInstall
    \/ ExporterInstall
    \/ Remove
    \/ UpdateStatusEvent
    \/ UpdateStatus
    \/ ConfigChanged
    \/ ConfigChangedValidate
    \/ ConfigChangedRender
    \/ RelationJoined
    \/ RelationDeparted

Spec == Init /\ [][Next]_vars

\* install/upgrade, relation-joined and update-status events on a fresh unit,
\* the facts given to the evaluator kept for inspection
NextObserved ==
    \/ InstallOrUpgrade
    \/ HWToolInstall
    \/ ExporterInstall
    \/ UpdateStatusEvent
    \/ UpdateStatusObserved
    \/ RelationJoined

SpecObserved == Init /\ [][NextObserved]_vars

\* ------------------------------------------------------------------------
\* The evaluator on drawn inputs: _on_update_status is run on fixed flags and
\* fixed observed facts, then a second time in a row, and once more from a
\* different previous status.  The liveness probes of restart_exporter are not
\* part of the observed facts and are drawn anew in each run.
\* ------------------------------------------------------------------------

\* statuses a unit can show between two events
PrevStatuses ==
    { BlockedStatus(MissingRelationMsg),
      ActiveStatus("Unit is ready"),
      MaintenanceStatus("Installing exporter...") }

NoRun == [ran |-> FALSE]

\* observed facts of a run: the fixed ones of ev and the probes p
EvFacts(p) ==
    [redfish |-> ev.redfish, tools_ok |-> ev.tools_ok, healthy |-> ev.healthy, probes |-> p]

\* ev after one more run of the evaluator from status prev
EvRun(prev, p) ==
    [ran |-> TRUE, prev |-> prev,
     res |-> on_update_status(ev.stored, ev.n, ev.config, EvFacts(p), prev)]

InitEval ==
    /\ stored = [resource_installed |-> FALSE, exporter_installed |-> FALSE]
    /\ status = InitialStatus
    /\ pc = "idle"
    /\ handler = "none"
    /\ num_cos_agent_relations = 0
    /\ config = CHOOSE c \in Configs : c.port = 8080
    /\ trace = <<>>
    /\ outcome = "none"
    /\ deferred = FALSE
    /\ service = [enabled |-> FALSE, running |-> FALSE]
    /\ last_install = "none"
    /\ status_before = InitialStatus
    /\ removed = FALSE
    /\ ev \in [phase : {"ready"},
               stored : [resource_installed : BOOLEAN, exporter_installed : BOOLEAN],
               n : 0..MaxRelations,
               config : Configs,
               redfish : RedfishOutcomes,
               tools_ok : BOOLEAN,
               healthy : BOOLEAN,
               prev : PrevStatuses,
               prev2 : PrevStatuses,
               first : {NoRun}, second : {NoRun}, twin : {NoRun}]
    \* an install/upgrade whose exporter install failed ends Blocked
    /\ ~(ev.stored.resource_installed /\ ~ev.stored.exporter_installed
         /\ "maintenance" \in {ev.prev.kind, ev.prev2.kind})

\* first run, from status ev.prev
EvalFirst ==
    /\ ev.phase = "ready"
    /\ \E p \in ProbeSeqs :
        ev' = [ev EXCEPT !.phase = "first", !.first = EvRun(ev.prev, p)]
    /\ UNCHANGED charmvars

\* second run in a row: it starts from what the first run left
EvalSecond ==
    /\ ev.phase = "first"
    /\ \E p \in ProbeSeqs :
        ev' = [ev EXCEPT !.phase = "second",
                         !.second = [ran |-> TRUE, prev |-> ev.first.res.status,
                                     res |-> on_update_status(ev.first.res.stored, ev.n,
                                                 ev.config, EvFacts(p),
                                                 ev.first.res.status)]]
    /\ UNCHANGED charmvars

\* the same flags and facts, from status ev.prev2
EvalTwin ==
    /\ ev.phase = "second"
    /\ \E p \in ProbeSeqs :
        ev' = [ev EXCEPT !.phase = "twin", !.twin = EvRun(ev.prev2, p)]
    /\ UNCHANGED charmvars

NextEval ==
    \/ EvalFirst
    \/ EvalSecond
    \/ EvalTwin

SpecEval == InitEval /\ [][NextEval]_vars


\* ------------------------------------------------------------------------
\* Config validation and the credential check on drawn inputs.
\* ------------------------------------------------------------------------
InitConfig ==
    /\ stored = [resource_installed |-> FALSE, exporter_installed |-> FALSE]
    /\ status = InitialStatus
    /\ pc = "idle"
    /\ handler = "none"
    /\ num_cos_agent_relations = 0
    /\ config = CHOOSE c \in Configs : c.port = 8080
    /\ trace = <<>>
    /\ outcome = "none"
    /\ deferred = FALSE
    /\ service = [enabled |-> FALSE, running |-> FALSE]
    /\ last_install = "none"
    /\ status_before = InitialStatus
    /\ removed = FALSE
    /\ ev \in [phase : {"config"},
               port : Ports,
               level : Levels,
               redfish : RedfishOutcomes,
               validated : {NoRun}, checked : {NoRun}]

\* validate_exporter_configs on the drawn port, level and BMC behaviour
ValidateConfig ==
    /\ ev.phase = "config"
    /\ ev' = [ev EXCEPT !.phase = "validated",
                        !.validated =
                            [ran |-> TRUE,
                             res |-> validate_exporter_configs(
                                         [port |-> ev.port, level |-> ev.level],
                                         ev.redfish)]]
    /\ UNCHANGED charmvars

\* redfish_conn_params_valid on the drawn BMC behaviour
CheckCredentials ==
    /\ ev.phase = "validated"
    /\ ev' = [ev EXCEPT !.phase = "checked",
                        !.checked = [ran |-> TRUE,
                                     res |-> redfish_conn_params_valid(ev.redfish)]]
    /\ UNCHANGED charmvars

NextConfig ==
    \/ ValidateConfig
    \/ CheckCredentials

SpecConfig == InitConfig /\ [][NextConfig]_vars


\* ========================================================================
\* Properties
\* ========================================================================
StatusEntries == {"status:maintenance", "status:blocked", "status:active"}
ProbeEntries == {"check_active:True", "check_active:False"}

First == ev.first.res
Second == ev.second.res
Twin == ev.twin.res

\* the result of config validation on the fixed inputs of ev
EvConfig == validate_exporter_configs(ev.config, ev.redfish)

\* the first check of the fixed order that fails on the fixed inputs of ev
FirstFailing ==
    IF ev.n = 0 THEN "relation_missing"
    ELSE IF ev.n > 1 THEN "relation_too_many"
    ELSE IF ~EvConfig.ok THEN "config"
    ELSE IF ~ev.tools_ok THEN "tools"
    ELSE "none"

\* the status the fixed order prescribes
ExpectedStatus ==
    CASE FirstFailing = "relation_missing" -> BlockedStatus(MissingRelationMsg)
      [] FirstFailing = "relation_too_many" -> BlockedStatus(TooManyRelationsMsg)
      [] FirstFailing = "config" -> BlockedStatus(EvConfig.msg)
      [] FirstFailing = "tools" -> BlockedStatus(HWToolCheckMsg)
      [] OTHER -> ActiveStatus("Unit is ready")

\* no check after the first failing one was run
LaterChecksNotRun(t) ==
    /\ FirstFailing \in {"relation_missing", "relation_too_many"}
          => ~Has(t, "validate_exporter_configs")
    /\ FirstFailing \in {"relation_missing", "relation_too_many", "config"}
          => ~Has(t, "check_installed")
    /\ FirstFailing # "none"
          => ~Has(t, "check_health") /\ ~Has(t, "restart_exporter") /\ ~Has(t, "restart")

\* C1 (as stated): with resource_installed true the evaluator leaves the status
\* of the first failing check, Active when none fails, and runs no later check.
C1_Original ==
    (ev.first.ran /\ ev.stored.resource_installed)
        => /\ First.status = ExpectedStatus
           /\ LaterChecksNotRun(First.trace)

\* C1 (amended): with resource_installed true the evaluator leaves the status of
\* the first failing check and runs no later check; when no check fails it
\* leaves Active, except that with an unhealthy exporter and a failed restart
\* supervisor it writes no status and the fatal error escapes.
C1_Precedence ==
    (ev.first.ran /\ ev.stored.resource_installed)
        => /\ LaterChecksNotRun(First.trace)
           /\ IF First.fatal
              THEN /\ FirstFailing = "none"
                   /\ ~ev.healthy
                   /\ First.status = ev.prev
                   /\ \A k \in 1..Len(First.trace) : First.trace[k] \notin StatusEntries
              ELSE First.status = ExpectedStatus

\* several checks fail at once and the first of them decided
C1_Witness ==
    /\ ev.first.ran
    /\ ev.stored.resource_installed
    /\ ev.n = 2
    /\ ~EvConfig.ok
    /\ ~ev.tools_ok
    /\ ~ev.healthy
    /\ First.status = BlockedStatus(TooManyRelationsMsg)

\* C2 (as stated): a second run in a row on the same flags and facts leaves the
\* status of the first run, and the flags are unchanged.
C2_Original ==
    ev.second.ran
        => /\ Second.status = First.status
           /\ Second.stored = ev.stored

\* C2 (amended): the flags are unchanged by both runs, and the second run leaves
\* the status of the first run provided the first run returned normally; after
\* a first run that ended with the fatal restart error the second run leaves
\* either that same status or Active.
C2_Idempotent ==
    ev.second.ran
        => /\ First.stored = ev.stored
           /\ Second.stored = ev.stored
           /\ ~First.fatal => Second.status = First.status
           /\ First.fatal => Second.status \in {First.status, ActiveStatus("Unit is ready")}

\* the second run met a failed restart after the first run had set Active
C2_Witness ==
    /\ ev.second.ran
    /\ ev.stored.resource_installed
    /\ ev.prev.kind = "blocked"
    /\ ~First.fatal
    /\ First.status.kind = "active"
    /\ Second.fatal
    /\ Second.status = First.status

\* C3 (as stated): two runs on the same flags and facts that start from
\* different previous statuses end with the same status.
C3_Original ==
    ev.twin.ran => Twin.status = First.status

\* C3 (amended): when resource_installed is true and both runs return normally
\* they end with the same status whatever the previous statuses were; when
\* resource_installed is false, or a run ends with the fatal restart error,
\* that run leaves its previous status.
C3_FunctionOfInputs ==
    ev.twin.ran
        => /\ (ev.stored.resource_installed /\ ~First.fatal /\ ~Twin.fatal)
                 => Twin.status = First.status
           /\ ~ev.stored.resource_installed
                 => (First.status = ev.prev /\ Twin.status = ev.prev2)
           /\ First.fatal => First.status = ev.prev
           /\ Twin.fatal => Twin.status = ev.prev2

\* two normal runs from different previous statuses agreed
C3_Witness ==
    /\ ev.twin.ran
    /\ ev.stored.resource_installed
    /\ ev.prev # ev.prev2
    /\ ev.n = 2
    /\ ~First.fatal
    /\ ~Twin.fatal
    /\ Twin.status = First.status
    /\ Twin.status \notin {ev.prev, ev.prev2}

\* C4 (as stated): the supervisor never issues more than R restart requests and
\* raises the fatal error only after exactly R restart requests, each followed
\* by a failed liveness probe.
C4_Claim ==
    ev.first.ran
        => /\ Count(First.trace, "restart") <= EXPORTER_HEALTH_RETRY_COUNT
           /\ First.fatal
                 => /\ Count(First.trace, "restart") = EXPORTER_HEALTH_RETRY_COUNT
                    /\ ~Has(First.trace, "check_active:True")

\* the probe that decided the supervisor's result failed
SupervisorFailed(t) ==
    \E k \in 1..Len(t) :
        /\ t[k] = "check_active:False"
        /\ \A j \in (k + 1)..Len(t) : t[j] \notin ProbeEntries \cup {"restart"}

\* no status was written between entering the evaluator and the end of the run
NoStatusWrittenByEvaluator(t) ==
    \A j \in (Index(t, "update_status") + 1)..Len(t) : t[j] \notin StatusEntries

C5_Step ==
    (pc = "update_status" /\ Has(trace', "check_health") /\ SupervisorFailed(trace'))
        => /\ outcome' = "fatal"
           /\ pc' = "idle"
           /\ status' = status
           /\ NoStatusWrittenByEvaluator(trace')

\* C5: when the evaluator reaches the health check, the exporter is unhealthy
\* and the restart supervisor fails, the handler ends with the fatal error and
\* the status is the one from before the health check: no status is written.
C5_FatalPropagates == [][C5_Step]_vars

\* a config-changed handler ended with the fatal error after its own restart
C5_Witness ==
    /\ pc = "idle"
    /\ outcome = "fatal"
    /\ handler = "config_changed"
    /\ Has(trace, "raise")
    /\ status = status_before

\* C6 (as stated): config-changed with resource_installed false defers and does
\* nothing else: no validation, no render, no restart, no status write.
C6_Claim ==
    (handler = "config_changed" /\ deferred)
        => /\ ~Has(trace, "validate_exporter_configs")
           /\ ~Has(trace, "render_config")
           /\ ~Has(trace, "restart")
           /\ \A k \in 1..Len(trace) : trace[k] \notin StatusEntries
           /\ status = status_before

C7_Step ==
    (pc = "idle" /\ handler' = "relation_joined")
        => IF ~stored.resource_installed \/ ~stored.exporter_installed
           THEN /\ deferred'
                /\ pc' = "idle"
                /\ trace' = <<"defer">>
                /\ status' = status
                /\ stored' = stored
                /\ service' = service
           ELSE /\ ~deferred'
                /\ pc' = "update_status"
                /\ trace' = <<"enable", "start">>
                /\ service' = [enabled |-> TRUE, running |-> TRUE]

C7_Inv ==
    /\ (Has(trace, "enable") \/ Has(trace, "start"))
          => /\ handler = "relation_joined"
             /\ stored.resource_installed
             /\ stored.exporter_installed
    /\ (handler = "relation_joined" /\ Has(trace, "update_status"))
          => /\ ~deferred
             /\ Index(trace, "enable") = 1
             /\ Index(trace, "start") = 2
             /\ Index(trace, "update_status") = 3

\* C7: relation-joined enables and starts the exporter only when both flags are
\* true; otherwise it defers and leaves status, flags and service untouched;
\* with both flags true enable and start come before the evaluator runs.
C7_RelationJoined == [][C7_Step]_vars /\ []C7_Inv

\* relation-joined ran to the end with both flags true
C7_Witness ==
    /\ pc = "idle"
    /\ handler = "relation_joined"
    /\ outcome = "returned"
    /\ ~deferred
    /\ Has(trace, "update_status")
    /\ service.enabled

\* C8 (as stated): exporter_installed turns from false to true only in an
\* install/upgrade handler run whose tool install succeeded.
C8_Claim ==
    [][(~stored.exporter_installed /\ stored'.exporter_installed)
          => (handler' = "install_or_upgrade" /\ stored'.resource_installed)]_vars

\* C9 (as stated): once the status is Blocked or Active, no handler writes a
\* Maintenance status again.
C9_Original ==
    [][status.kind \in {"blocked", "active"} => status'.kind # "maintenance"]_vars

\* C9 (amended): once the status is Blocked or Active, no handler other than
\* install/upgrade writes a Maintenance status again; install/upgrade
\* re-enters Maintenance when it starts.
C9_MaintenanceOnlyByInstall ==
    [][(status.kind \in {"blocked", "active"} /\ status'.kind = "maintenance")
          => (pc = "idle" /\ handler' = "install_or_upgrade")]_vars

\* an upgrade took a Blocked unit back to Maintenance
C9_Witness ==
    /\ handler = "install_or_upgrade"
    /\ pc = "hw_tool_install"
    /\ status_before.kind = "blocked"
    /\ status.kind = "maintenance"

\* C10 (as stated): with no handler running and an install/upgrade processed,
\* whether it returned or ended with the fatal error, the status is not
\* Maintenance.
C10_Original ==
    (pc = "idle" /\ last_install \in {"returned", "fatal"})
        => status.kind \in {"blocked", "active"}

\* C10 (amended): with no handler running and the latest install/upgrade
\* returned normally, the status is Blocked or Active; an install/upgrade that
\* ended with the fatal restart error leaves Maintenance in place.
C10_MaintenanceOnlyDuringInstall ==
    /\ (pc = "idle" /\ last_install = "returned")
          => status.kind \in {"blocked", "active"}
    /\ (pc = "idle" /\ last_install = "fatal" /\ handler = "install_or_upgrade")
          => status = MaintenanceStatus("Installing exporter...")

\* an install/upgrade whose exporter install failed has returned
C10_Witness ==
    /\ pc = "idle"
    /\ handler = "install_or_upgrade"
    /\ last_install = "returned"
    /\ stored.resource_installed
    /\ ~stored.exporter_installed
    /\ status = BlockedStatus(ExporterInstallFailedMsg)

\* the port rule of the validation
PortInRange == 1 <= ev.port /\ ev.port <= 65535

\* the drawn levels that match an allowed level when case is ignored
LevelAllowed ==
    ev.level \in { <<"d","e","b","u","g">>,
                   <<"I","N","F","O">>,
                   <<"W","a","R","n","I","n","G">>,
                   <<"e","r","r","o","r">>,
                   <<"C","r","i","t","i","c","a","l">> }

\* the three outcomes of the credential check for the drawn BMC behaviour
CredentialOutcome ==
    IF ev.redfish = "unavailable" THEN "unavailable"
    ELSE IF ev.redfish = "login_ok" THEN "valid"
    ELSE "invalid"

CredentialCalls == {"get_redfish_conn_params", "redfish_client", "login", "logout"}

\* C11: validate_exporter_configs returns valid exactly when the port is in
\* 1..65535, the upper-cased level is an allowed one and the credential check
\* is not invalid; it reports the first failing rule in the order port, level,
\* credentials, and does not run the credential check when port or level fail.
C11_Validation ==
    ev.validated.ran
        => LET r == ev.validated.res IN
           /\ r.ok <=> (PortInRange /\ LevelAllowed /\ CredentialOutcome # "invalid")
           /\ ~PortInRange => r.msg = InvalidPortMsg
           /\ (PortInRange /\ ~LevelAllowed) => r.msg = InvalidLevelMsg
           /\ (PortInRange /\ LevelAllowed /\ CredentialOutcome = "invalid")
                 => r.msg = InvalidRedfishMsg
           /\ (~PortInRange \/ ~LevelAllowed)
                 => \A k \in 1..Len(r.trace) : r.trace[k] \notin CredentialCalls
           /\ (PortInRange /\ LevelAllowed) => Has(r.trace, "get_redfish_conn_params")

\* a boundary port and a lower-case level pass on a node without a BMC
C11_Witness ==
    /\ ev.validated.ran
    /\ ev.port = 65535
    /\ ev.level = <<"d","e","b","u","g">>
    /\ ev.redfish = "unavailable"
    /\ ev.validated.res.ok

\* a client object exists once redfish_client(...) has returned
ClientCreated == ev.redfish \notin {"unavailable", "client_error"}

\* C13: whenever a client object was created, logout is called exactly once, as
\* the last call of the check, whether login succeeded, failed with invalid
\* credentials or failed otherwise; the check returns None, without creating a
\* client or logging in, exactly when the node has no redfish.
C13_Teardown ==
    ev.checked.ran
        => LET r == ev.checked.res IN
           /\ ClientCreated
                 => /\ Count(r.trace, "logout") = 1
                    /\ r.trace[Len(r.trace)] = "logout"
                    /\ Has(r.trace, "login")
                    /\ Index(r.trace, "login") < Index(r.trace, "logout")
           /\ ~ClientCreated => ~Has(r.trace, "logout") /\ ~Has(r.trace, "login")
           /\ r.result = "None" <=> ev.redfish = "unavailable"
           /\ r.result = "None" => ~Has(r.trace, "redfish_client")
           /\ r.result = "True" <=> ev.redfish = "login_ok"

\* a login refused for invalid credentials was followed by the logout
C13_Witness ==
    /\ ev.checked.ran
    /\ ev.redfish = "invalid_credentials"
    /\ ev.checked.res.result = "False"
    /\ Count(ev.checked.res.trace, "logout") = 1

\* the configuration of Configs whose port and level are valid
ValidConfig == [port |-> 8080, level |-> <<"d","e","b","u","g">>]

\* C12: on a unit whose installs succeeded, a relation-joined event with one
\* relation, valid config, tools ok and a healthy exporter leaves
\* exporter_installed true and status Active; an update-status event that then
\* finds the credentials invalid leaves Blocked with the credential reason.
C12_EndToEnd ==
    /\ ( /\ pc = "idle"
         /\ handler = "relation_joined"
         /\ ~deferred
         /\ num_cos_agent_relations = 1
         /\ config = ValidConfig
         /\ ev.phase = "observed"
         /\ ev.redfish \in {"unavailable", "login_ok"}
         /\ ev.tools_ok
         /\ ev.healthy )
          => /\ status = ActiveStatus("Unit is ready")
             /\ stored.resource_installed
             /\ stored.exporter_installed
             /\ outcome = "returned"
    /\ ( /\ pc = "idle"
         /\ handler = "update_status"
         /\ status_before = ActiveStatus("Unit is ready")
         /\ num_cos_agent_relations = 1
         /\ config = ValidConfig
         /\ ev.phase = "observed"
         /\ ev.redfish = "invalid_credentials" )
          => status = BlockedStatus(InvalidRedfishMsg)

\* install, relation joined, Active, then an update-status that met invalid
\* credentials
C12_Witness ==
    /\ pc = "idle"
    /\ handler = "update_status"
    /\ last_install = "returned"
    /\ stored.exporter_installed
    /\ service.enabled
    /\ status_before = ActiveStatus("Unit is ready")
    /\ ev.phase = "observed"
    /\ ev.redfish = "invalid_credentials"
    /\ status = BlockedStatus(InvalidRedfishMsg)

\* ------------------------------------------------------------------------
\* the handlers that assign _stored
FlagWriters == {"install_or_upgrade", "remove"}

\* C14: the flags resource_installed and exporter_installed are written only
\* by the install/upgrade and remove handlers.  Every step taken for an
\* update-status, config-changed, relation-joined or relation-departed event,
\* the evaluator and the restart supervisor they run included, leaves both
\* flags as they were, also when the handler ends with the fatal error.
C14_FlagsFrame ==
    [][handler' \notin FlagWriters => stored' = stored]_vars

\* a config-changed handler has ended with the supervisor's fatal error, both
\* flags still set
C14_Witness ==
    /\ pc = "idle"
    /\ handler = "config_changed"
    /\ outcome = "fatal"
    /\ Has(trace, "restart_exporter")
    /\ Has(trace, "raise")
    /\ stored = [resource_installed |-> TRUE, exporter_installed |-> TRUE]

\* ------------------------------------------------------------------------
\* the install/upgrade handler is running or ran last
InstallRun == handler = "install_or_upgrade"
ToolInstallFailed == InstallRun /\ Has(trace, "hw_tool_install") /\ ~stored.resource_installed
ExporterInstallFailed == InstallRun /\ Has(trace, "exporter_install") /\ ~stored.exporter_installed

C15_Inv ==
    /\ ToolInstallFailed =>
          /\ pc = "idle"
          /\ outcome = "returned"
          /\ status = BlockedStatus(HWToolInstallMsg)
          /\ ~Has(trace, "exporter_install")
          /\ ~Has(trace, "update_status")
    /\ ExporterInstallFailed =>
          /\ pc = "idle"
          /\ outcome = "returned"
          /\ stored.resource_installed
          /\ status = BlockedStatus(ExporterInstallFailedMsg)
          /\ ~Has(trace, "update_status")
    /\ InstallRun /\ (pc = "update_status" \/ Has(trace, "update_status")) =>
          /\ stored.resource_installed
          /\ stored.exporter_installed
          /\ Count(trace, "hw_tool_install") = 1
          /\ Count(trace, "exporter_install") = 1

\* each install step writes its result to its flag, and the handler goes on
\* exactly when the result is a success
C15_Step ==
    /\ pc = "hw_tool_install" =>
          /\ stored'.exporter_installed = stored.exporter_installed
          /\ (pc' = "exporter_install") = stored'.resource_installed
          /\ (pc' = "idle") = ~stored'.resource_installed
    /\ pc = "exporter_install" =>
          /\ stored'.resource_installed = stored.resource_installed
          /\ (pc' = "update_status") = stored'.exporter_installed
          /\ (pc' = "idle") = ~stored'.exporter_installed

\* C15: _on_install_or_upgrade stops at the first failing install step.  A
\* failed tool install leaves resource_installed false and the status Blocked
\* with the tool message, and neither the exporter install nor
\* _on_update_status is run.  A failed exporter install after a successful tool
\* install leaves exporter_installed false and the status Blocked with the
\* install-failed message, and _on_update_status is not run.
\* _on_update_status is run only when both installs succeeded.
C15_StopsAtFirstFailure == [][C15_Step]_vars /\ []C15_Inv

\* the tool install succeeded, the exporter install failed and the handler
\* has returned
C15_Witness ==
    /\ ExporterInstallFailed
    /\ pc = "idle"
    /\ trace = <<"status:maintenance", "hw_tool_install", "status:maintenance",
                 "exporter_install", "status:blocked">>

\* ------------------------------------------------------------------------
\* a liveness probe made inside the retry loop (right after a restart request)
\* succeeded
LoopProbeSucceeded(t) ==
    \E k \in 2..Len(t) : t[k - 1] = "restart" /\ t[k] = "check_active:True"

\* no restart request follows a successful liveness probe
NoRestartAfterSuccess(t) ==
    \A k \in 1..Len(t) :
        t[k] = "check_active:True" => \A j \in (k + 1)..Len(t) : t[j] # "restart"

\* C16 (as stated): the restart supervisor stops early.  Within one invocation
\* no restart request is issued after a liveness probe has succeeded, and an
\* invocation in which a liveness probe succeeded inside the retry loop returns
\* normally, without the fatal error.
C16_Claim ==
    (ev.first.ran /\ Has(First.trace, "restart_exporter"))
        => /\ NoRestartAfterSuccess(First.trace)
           /\ LoopProbeSucceeded(First.trace) => ~First.fatal

\* ------------------------------------------------------------------------
\* the part of a handler's trace that precedes its call of _on_update_status
HandlerPart(t) ==
    IF Has(t, "update_status") THEN SubSeq(t, 1, Index(t, "update_status") - 1) ELSE t

ConfigChangedRun == handler = "config_changed" /\ stored.resource_installed

\* the handler itself (not the supervisor run by the evaluator) restarted
HandlerRestarted == Has(HandlerPart(trace), "restart")

\* validation or rendering failed in this handler run
HandlerBlocked == Has(HandlerPart(trace), "status:blocked")

C17_Inv ==
    /\ (ConfigChangedRun /\ num_cos_agent_relations >= 1 /\ HandlerRestarted) =>
          /\ config = ValidConfig
          /\ 0 < Index(trace, "validate_exporter_configs")
          /\ Index(trace, "validate_exporter_configs") < Index(trace, "render_config")
          /\ Index(trace, "render_config") + 1 = Index(trace, "restart")
          /\ ~HandlerBlocked
          /\ Count(HandlerPart(trace), "restart") = 1
    /\ (ConfigChangedRun /\ num_cos_agent_relations >= 1 /\ HandlerBlocked) =>
          /\ pc = "idle"
          /\ outcome = "returned"
          /\ status.kind = "blocked"
          /\ ~Has(trace, "restart")
          /\ ~Has(trace, "update_status")
    /\ (ConfigChangedRun /\ num_cos_agent_relations >= 1 /\ Has(trace, "update_status")) =>
          HandlerRestarted
    /\ (ConfigChangedRun /\ num_cos_agent_relations = 0) =>
          /\ pc = "update_status" \/ Has(trace, "update_status")
          /\ ~Has(trace, "validate_exporter_configs")
          /\ ~Has(trace, "render_config")
          /\ ~Has(trace, "restart")

\* a configuration that cannot pass validation ends the handler at the
\* validation step, and the render step either restarts or ends the handler
C17_Step ==
    /\ (pc = "validate_config" /\ config # ValidConfig) =>
          /\ pc' = "idle"
          /\ status'.kind = "blocked"
          /\ service' = service
    /\ (pc = "validate_config" /\ pc' = "idle") =>
          /\ status'.kind = "blocked"
          /\ service' = service
    /\ pc = "render_config" =>
          \/ pc' = "update_status" /\ status' = status /\ service'.running
          \/ pc' = "idle" /\ status' = BlockedStatus(RenderFailedMsg) /\ service' = service

\* C17: when _on_config_changed runs with the install complete and at least
\* one relation, the handler restarts the exporter only after config validation
\* succeeded and the re-render succeeded; when validation or rendering fails
\* the status is Blocked, the exporter is not restarted and _on_update_status
\* is not run; with no relation the handler skips validation, rendering and
\* restart and only runs _on_update_status.
C17_ConfigChanged == [][C17_Step]_vars /\ []C17_Inv

\* validation and rendering succeeded, the handler restarted the exporter and
\* the evaluator has run
C17_Witness ==
    /\ ConfigChangedRun
    /\ pc = "idle"
    /\ num_cos_agent_relations = 1
    /\ HandlerRestarted
    /\ Has(trace, "update_status")
    /\ status = ActiveStatus("Unit is ready")

\* ------------------------------------------------------------------------
\* an install/upgrade event has been processed
InstallProcessed == last_install \in {"returned", "fatal"}

C18_Inv ==
    (pc \in {"idle", "update_status"} /\ InstallProcessed /\ ~removed
        /\ ~stored.resource_installed)
        => status.kind = "blocked"

\* the early return of the evaluator leaves the status as it is
C18_Step ==
    (pc = "update_status" /\ ~stored.resource_installed)
        => /\ status' = status
           /\ stored' = stored
           /\ pc' = "idle"

C19_Claim ==
    (pc = "idle" /\ handler = "relation_departed" /\ outcome = "returned"
        /\ stored.exporter_installed)
        => /\ service = [enabled |-> FALSE, running |-> FALSE]
           /\ ~Has(trace, "restart")
           /\ ~Has(trace, "start")

\* ------------------------------------------------------------------------
\* C20 (as stated): while exporter_installed is false no handler sets the
\* status to Active and none invokes the restart supervisor; in particular
\* after an install/upgrade whose exporter install failed no later
\* update-status, config-changed or relation-departed event makes the unit
\* Active.
C20_Claim ==
    ~stored.exporter_installed
        => /\ ~Has(trace, "status:active")
           /\ ~Has(trace, "restart_exporter")

====
